---- MODULE Spec2Model ----
(***************************************************************************)
(* Generic transformations over terms (src/src/transform.rs):              *)
(*   Transformation<F, U>  lifts a FnMut(U) -> U to every type T,          *)
(*   Everywhere<F>         bottom-up traversal of a whole term,            *)
(*   EverywhereBut<F, P>   the same, pruned where the query P is false.    *)
(* The recursion of the two traversals is modelled with an explicit call   *)
(* stack, one frame per active call of transform.                          *)
(***************************************************************************)
EXTENDS Integers, Sequences, FiniteSets, TLC

\* ------------------------------------------------------------------ bounds
\* Integer payloads of the input terms are 1..MaxInt.
MaxInt == 2
\* Input trees hold at most MaxPairs Pair nodes.
MaxPairs == 2
\* Successive direct calls of Transformation::transform on one object.
MaxCalls == 3

\* ------------------------------------------------------------------- terms
\* A term: constructor c, non-child data d, immediate children k (in the
\* term's declared order).  Int, Bool and Str are childless; Leaf holds one
\* Int child, Pair two Tree children.  Leaf and Pair are the two variants of
\* the one type Tree.
IntT(n) == [c |-> "Int", d |-> n, k |-> <<>>]

BoolT(b) == [c |-> "Bool", d |-> b, k |-> <<>>]

StrT(s) == [c |-> "Str", d |-> s, k |-> <<>>]

Leaf(n) == [c |-> "Leaf", d |-> 0, k |-> <<IntT(n)>>]

Pair(a, b) == [c |-> "Pair", d |-> 0, k |-> <<a, b>>]

\* The static type T of a value.
TypeOf(t) == IF t.c \in {"Leaf", "Pair"} THEN "Tree" ELSE t.c

Ints == {IntT(n) : n \in 1..MaxInt}

Leaves == {Leaf(n) : n \in 1..MaxInt}

\* Trees with exactly n Pair nodes.
RECURSIVE TreesOf(_)
TreesOf(n) ==
  IF n = 0 THEN Leaves
  ELSE UNION {{Pair(a, b) : a \in TreesOf(i), b \in TreesOf(n - 1 - i)} : i \in 0..(n - 1)}

Trees == UNION {TreesOf(n) : n \in 0..MaxPairs}

Atoms == Ints \cup {BoolT(0), BoolT(1)} \cup {StrT(1), StrT(2)}

\* Roots handed to a traversal, and arguments of a direct call.
Roots == Atoms \cup Trees

CallValues == Atoms \cup Leaves \cup TreesOf(1)

\* ---------------------------------------------------- the Term capability
\* Term::map_one_transform: the same term with every immediate child
\* replaced, child order and non-child data kept.
Rebuild(t, kids) == [c |-> t.c, d |-> t.d, k |-> kids]

\* ------------------------------------------------------------------- Cast
\* Cast::<U>::cast(t): Ok(t) when the type of t is U, else Err(t).
Cast(t, U) == [ok |-> TypeOf(t) = U, val |-> t]

\* ------------------------------------------------ the wrapped function F
\* F: FnMut(U) -> U.  A function is [U, kind]; its captured state is a
\* counter of its invocations, which "addctr" also reads.
FnSet ==
  { [U |-> "Int", kind |-> "inc"],
    [U |-> "Int", kind |-> "id"],
    [U |-> "Int", kind |-> "addctr"],
    [U |-> "Bool", kind |-> "not"],
    [U |-> "Tree", kind |-> "id"],
    [U |-> "Tree", kind |-> "swap"],
    [U |-> "Tree", kind |-> "grow"] }

ApplyFn(f, ctr, u) ==
  CASE f.kind = "inc" -> IntT(u.d + 1)
    [] f.kind = "addctr" -> IntT(u.d + ctr)
    [] f.kind = "not" -> BoolT(1 - u.d)
    [] f.kind = "swap" -> IF u.c = "Pair" THEN Pair(u.k[2], u.k[1]) ELSE u
    [] f.kind = "grow" -> Pair(u, Leaf(1))
    [] OTHER -> u

\* ------------------------------------------- Transformation::transform
\* One call self.transform(t) on a Transformation whose function is f with
\* captured counter ctr: the value returned, the counter afterwards, the
\* arguments F was invoked on, and whether unreachable!() was hit.
TransformMutAlways(f, ctr, t) ==
  [ret |-> ApplyFn(f, ctr, t), ctr |-> ctr + 1, calls |-> <<t>>, panicked |-> FALSE]

TransformMutNoFallback(f, ctr, t) ==
  LET fwd == Cast(t, f.U) IN
  IF fwd.ok
  THEN [ret |-> ApplyFn(f, ctr, fwd.val), ctr |-> ctr + 1, calls |-> <<fwd.val>>,
        panicked |-> FALSE]
  ELSE [ret |-> t, ctr |-> ctr, calls |-> <<>>, panicked |-> TRUE]

TransformMutDropResult(f, ctr, t) ==
  LET fwd == Cast(t, f.U) IN
  IF fwd.ok
  THEN [ret |-> fwd.val, ctr |-> ctr + 1, calls |-> <<fwd.val>>, panicked |-> FALSE]
  ELSE [ret |-> fwd.val, ctr |-> ctr, calls |-> <<>>, panicked |-> FALSE]

TransformationTransform(f, ctr, t) ==
  LET fwd == Cast(t, f.U) IN
  IF fwd.ok
  THEN LET r == ApplyFn(f, ctr, fwd.val)
           back == Cast(r, TypeOf(t))
       IN IF back.ok
          THEN [ret |-> back.val, ctr |-> ctr + 1, calls |-> <<fwd.val>>,
                panicked |-> FALSE]
          ELSE [ret |-> t, ctr |-> ctr + 1, calls |-> <<fwd.val>>,
                panicked |-> TRUE]
  ELSE [ret |-> fwd.val, ctr |-> ctr, calls |-> <<>>, panicked |-> FALSE]

\* ------------------------------------------------------ the query P
\* GenericQuery<bool>::query(&t), read-only.  The predicates tried.
PredSet == {"always", "notLeaf2", "notInt", "notPair11", "never"}

QueryPred(p, t) ==
  CASE p = "always" -> TRUE
    [] p = "notLeaf2" -> t # Leaf(2)
    [] p = "notInt" -> TypeOf(t) # "Int"
    [] p = "notPair11" -> t # Pair(Leaf(1), Leaf(1))
    [] OTHER -> FALSE

\* ------------------------------------------------------------- state
VARIABLES
  kind,    \* "Transformation", "Everywhere" or "EverywhereBut": the object called
  fn,      \* the wrapped function F, an element of FnSet
  pred,    \* the query P of an EverywhereBut
  input,   \* the root term handed to the traversal
  run,     \* the traversal in progress
  ref,     \* an Everywhere over a clone of F, run beside an EverywhereBut
  last,    \* the last direct call of Transformation::transform, <<>> before any
  ncalls   \* direct calls made so far

vars == <<kind, fn, pred, input, run, ref, last, ncalls>>

\* A traversal in progress.  stack: the active calls of transform, innermost
\* last; ctr: the counter F captures; result: <<v>> once the outermost call
\* returned v; tlog: the calls of self.f.transform, each with the path of the
\* node, the argument, the value returned and F's counter before and after;
\* flog: the arguments of F; qlog: the calls of self.p.query, [path, arg].
Frame(t, path, pc) == [t |-> t, path |-> path, pc |-> pc, kids |-> <<>>]

\* EverywhereBut::transform starts with the query (line 132), Everywhere::transform
\* with map_one_transform (line 92).
StartPc(k) == IF k = "EverywhereBut" THEN "query" ELSE "map"

NoRun ==
  [stack |-> <<>>, ctr |-> 0, result |-> <<>>, panicked |-> FALSE,
   tlog |-> <<>>, flog |-> <<>>, qlog |-> <<>>]

NewRun(k, t) == [NoRun EXCEPT !.stack = <<Frame(t, <<>>, StartPc(k))>>]

Top(m) == m.stack[Len(m.stack)]

Active(m) == m.stack # <<>> /\ ~m.panicked

Done(m) == m.result # <<>>

\* The innermost call returns v: to the map_one_transform of its caller, which
\* goes on to the next child, or out of the traversal.
ReturnMutNoAdvance(m, v) ==
  LET n == Len(m.stack) IN
  IF n = 1 THEN [m EXCEPT !.stack = <<>>, !.result = <<v>>]
  ELSE [m EXCEPT !.stack = [SubSeq(m.stack, 1, n - 1) EXCEPT ![n - 1].kids =
                                IF @ = <<>> THEN <<v>> ELSE @]]

Return(m, v) ==
  LET n == Len(m.stack) IN
  IF n = 1 THEN [m EXCEPT !.stack = <<>>, !.result = <<v>>]
  ELSE [m EXCEPT !.stack = [SubSeq(m.stack, 1, n - 1) EXCEPT ![n - 1].kids = Append(@, v)]]

\* self.p.query(&t), line 132.
CanQuery(m) == Active(m) /\ Top(m).pc = "query"

DoQueryMutNoPrune(m, p) ==
  LET fr == Top(m)
      q == [m EXCEPT !.qlog = Append(@, [path |-> fr.path, arg |-> fr.t])]
  IN [q EXCEPT !.stack[Len(m.stack)].pc = "map"]

DoQueryMutInverted(m, p) ==
  LET fr == Top(m)
      q == [m EXCEPT !.qlog = Append(@, [path |-> fr.path, arg |-> fr.t])]
  IN IF ~QueryPred(p, fr.t)
     THEN [q EXCEPT !.stack[Len(m.stack)].pc = "map"]
     ELSE Return(q, fr.t)

DoQuery(m, p) ==
  LET fr == Top(m)
      q == [m EXCEPT !.qlog = Append(@, [path |-> fr.path, arg |-> fr.t])]
  IN IF QueryPred(p, fr.t)
     THEN [q EXCEPT !.stack[Len(m.stack)].pc = "map"]
     ELSE Return(q, fr.t)

\* t.map_one_transform(self) calls self.transform on the next child, lines 92, 133.
CanDescend(m) ==
  Active(m) /\ Top(m).pc = "map" /\ Len(Top(m).kids) < Len(Top(m).t.k)

DoDescendMutUnfiltered(m, k) ==
  LET fr == Top(m)
      i == Len(fr.kids) + 1
  IN [m EXCEPT !.stack = Append(@, Frame(fr.t.k[i], fr.path \o <<i>>, "map"))]

DoDescendMutReverse(m, k) ==
  LET fr == Top(m)
      i == Len(fr.t.k) - Len(fr.kids)
  IN [m EXCEPT !.stack = Append(@, Frame(fr.t.k[i], fr.path \o <<i>>, StartPc(k)))]

DoDescend(m, k) ==
  LET fr == Top(m)
      i == Len(fr.kids) + 1
  IN [m EXCEPT !.stack = Append(@, Frame(fr.t.k[i], fr.path \o <<i>>, StartPc(k)))]

\* map_one_transform returns the rebuilt term and self.f.transform(t) is called
\* on it, lines 93, 134; its result is the result of this call.
CanApply(m) ==
  Active(m) /\ Top(m).pc = "map" /\ Len(Top(m).kids) = Len(Top(m).t.k)

DoApplyMutOriginal(m, f) ==
  LET fr == Top(m)
      t == fr.t
      r == TransformationTransform(f, m.ctr, t)
      a == [m EXCEPT !.ctr = r.ctr,
                     !.flog = @ \o r.calls,
                     !.tlog = Append(@, [path |-> fr.path, arg |-> t, ret |-> r.ret,
                                         before |-> m.ctr, after |-> r.ctr])]
  IN IF r.panicked THEN [a EXCEPT !.panicked = TRUE] ELSE Return(a, r.ret)

DoApplyMutRetraverse(m, f) ==
  LET fr == Top(m)
      t == Rebuild(fr.t, fr.kids)
      r == TransformationTransform(f, m.ctr, t)
      a == [m EXCEPT !.ctr = r.ctr,
                     !.flog = @ \o r.calls,
                     !.tlog = Append(@, [path |-> fr.path, arg |-> t, ret |-> r.ret,
                                         before |-> m.ctr, after |-> r.ctr])]
  IN IF r.panicked THEN [a EXCEPT !.panicked = TRUE]
     ELSE IF r.ret = t THEN Return(a, r.ret)
     ELSE [a EXCEPT !.stack[Len(m.stack)] = Frame(r.ret, fr.path, "map")]

DoApply(m, f) ==
  LET fr == Top(m)
      t == Rebuild(fr.t, fr.kids)
      r == TransformationTransform(f, m.ctr, t)
      a == [m EXCEPT !.ctr = r.ctr,
                     !.flog = @ \o r.calls,
                     !.tlog = Append(@, [path |-> fr.path, arg |-> t, ret |-> r.ret,
                                         before |-> m.ctr, after |-> r.ctr])]
  IN IF r.panicked THEN [a EXCEPT !.panicked = TRUE] ELSE Return(a, r.ret)

\* ------------------------------------------------------------ actions
Init ==
  /\ kind \in {"Transformation", "Everywhere", "EverywhereBut"}
  /\ fn \in FnSet
  /\ pred \in (IF kind = "EverywhereBut" THEN PredSet ELSE {"always"})
  /\ input \in (IF kind = "Transformation" THEN {IntT(1)} ELSE Roots)
  /\ run = IF kind = "Transformation" THEN NoRun ELSE NewRun(kind, input)
  /\ ref = NoRun
  /\ last = <<>>
  /\ ncalls = 0

\* A direct call transform(v) on the Transformation, lines 48-59.  The object
\* keeps F's counter in run.ctr from one call to the next.
Call ==
  /\ kind = "Transformation"
  /\ ncalls < MaxCalls
  /\ ~run.panicked
  /\ \E v \in CallValues :
       LET r == TransformationTransform(fn, run.ctr, v)
       IN /\ last' = <<[arg |-> v, before |-> run.ctr, ret |-> r.ret,
                        calls |-> r.calls]>>
          /\ run' = [run EXCEPT !.ctr = r.ctr, !.panicked = r.panicked]
  /\ ncalls' = ncalls + 1
  /\ UNCHANGED <<kind, fn, pred, input, ref>>

Query ==
  /\ CanQuery(run)
  /\ run' = DoQuery(run, pred)
  /\ UNCHANGED <<kind, fn, pred, input, ref, last, ncalls>>

Descend ==
  /\ CanDescend(run)
  /\ run' = DoDescend(run, kind)
  /\ UNCHANGED <<kind, fn, pred, input, ref, last, ncalls>>

Apply ==
  /\ CanApply(run)
  /\ run' = DoApply(run, fn)
  /\ UNCHANGED <<kind, fn, pred, input, ref, last, ncalls>>

Next == Call \/ Query \/ Descend \/ Apply

Spec == Init /\ [][Next]_vars

\* Every call runs to completion: a step that can be taken is taken.
FairSpec == Spec /\ WF_vars(Next)

\* ------------------------------------------- two traversals side by side
\* An EverywhereBut (run) and an Everywhere (ref) over the same root, each with
\* its own clone of F.  They share no state, so the order of their steps does
\* not matter; they are stepped in turns, run one call of f.transform ahead.
InitPair ==
  /\ kind = "EverywhereBut"
  /\ fn \in FnSet
  /\ pred \in PredSet
  /\ input \in Roots
  /\ run = NewRun("EverywhereBut", input)
  /\ ref = NewRun("Everywhere", input)
  /\ last = <<>>
  /\ ncalls = 0

RunTurn == ~Active(ref) \/ Len(run.tlog) <= Len(ref.tlog)

RefTurn == ~Active(run) \/ Len(ref.tlog) < Len(run.tlog)

PairQuery == RunTurn /\ Query

PairDescend == RunTurn /\ Descend

PairApply == RunTurn /\ Apply

RefDescend ==
  /\ RefTurn
  /\ CanDescend(ref)
  /\ ref' = DoDescend(ref, "Everywhere")
  /\ UNCHANGED <<kind, fn, pred, input, run, last, ncalls>>

RefApply ==
  /\ RefTurn
  /\ CanApply(ref)
  /\ ref' = DoApply(ref, fn)
  /\ UNCHANGED <<kind, fn, pred, input, run, last, ncalls>>

NextPair == PairQuery \/ PairDescend \/ PairApply \/ RefDescend \/ RefApply

SpecPair == InitPair /\ [][NextPair]_vars

\* ============================================================ properties
Traversing == kind \in {"Everywhere", "EverywhereBut"}

\* Paths name the nodes of a term: the root is <<>>, child i of p is p \o <<i>>.
RECURSIVE NodeAt(_, _)
NodeAt(t, p) == IF p = <<>> THEN t ELSE NodeAt(t.k[Head(p)], Tail(p))

RECURSIVE PostOrder(_, _)
PostOrder(t, p) ==
  LET RECURSIVE Kids(_)
      Kids(i) == IF i > Len(t.k) THEN <<>>
                 ELSE PostOrder(t.k[i], p \o <<i>>) \o Kids(i + 1)
  IN Kids(1) \o <<p>>

RECURSIVE Size(_)
Size(t) ==
  LET RECURSIVE Sum(_)
      Sum(i) == IF i > Len(t.k) THEN 0 ELSE Size(t.k[i]) + Sum(i + 1)
  IN 1 + Sum(1)

IsPrefix(s, t) == Len(s) <= Len(t) /\ SubSeq(t, 1, Len(s)) = s

\* C1 (identity elsewhere): a call of Transformation::transform on a value whose
\* type T differs from U returns that value unchanged and does not invoke F:
\* F's counter is the same after the call as before and F received nothing.
\* Holds of a direct call and of every call a traversal makes.
IdentityElsewhere ==
  /\ last # <<>> =>
       LET l == last[1] IN
       TypeOf(l.arg) # fn.U =>
         l.ret = l.arg /\ l.calls = <<>> /\ run.ctr = l.before
  /\ \A i \in DOMAIN run.tlog :
       LET e == run.tlog[i] IN
       TypeOf(e.arg) # fn.U => e.ret = e.arg /\ e.after = e.before
  /\ \A i \in DOMAIN run.flog : TypeOf(run.flog[i]) = fn.U

\* A direct call at a foreign type, made after F's counter had advanced.
IdentityElsewhereWitness ==
  /\ last # <<>>
  /\ TypeOf(last[1].arg) # fn.U
  /\ last[1].before > 0
  /\ last[1].ret = last[1].arg

\* C2 (correct type): a call of Transformation::transform on a value v of type U
\* returns F(v) and invokes F exactly once, on v: the counter F captures
\* advances by one per matching call and the next call sees it.
CorrectType ==
  /\ last # <<>> =>
       LET l == last[1] IN
       TypeOf(l.arg) = fn.U =>
         /\ l.ret = ApplyFn(fn, l.before, l.arg)
         /\ l.calls = <<l.arg>>
         /\ run.ctr = l.before + 1
  /\ \A i \in DOMAIN run.tlog :
       LET e == run.tlog[i] IN
       TypeOf(e.arg) = fn.U =>
         e.ret = ApplyFn(fn, e.before, e.arg) /\ e.after = e.before + 1
  /\ Traversing =>
       /\ run.ctr = Len(run.flog)
       /\ run.flog = [j \in 1..Len(run.flog) |->
                        LET S == {i \in DOMAIN run.tlog : TypeOf(run.tlog[i].arg) = fn.U}
                            nth == CHOOSE i \in S : Cardinality({x \in S : x < i}) = j - 1
                        IN run.tlog[nth].arg]

\* The third matching direct call of the counting function: its result shows
\* the two invocations before it.
CorrectTypeWitness ==
  /\ last # <<>>
  /\ fn.kind = "addctr"
  /\ last[1].before = 2
  /\ last[1].arg = IntT(1)
  /\ last[1].ret = IntT(3)

\* C10 (the reverse cast never fails): unreachable!() is never hit; every call of
\* Transformation::transform returns either F(v) or v.
ReverseCastNeverFails ==
  /\ ~run.panicked
  /\ ~ref.panicked
  /\ last # <<>> =>
       last[1].ret \in {last[1].arg, ApplyFn(fn, last[1].before, last[1].arg)}
  /\ \A i \in DOMAIN run.tlog :
       LET e == run.tlog[i] IN e.ret \in {e.arg, ApplyFn(fn, e.before, e.arg)}

\* F turned a Leaf into a Pair: another variant, the same type Tree.
ReverseCastWitness ==
  /\ last # <<>>
  /\ last[1].calls # <<>>
  /\ last[1].arg.c = "Leaf"
  /\ last[1].ret.c = "Pair"
  /\ ~run.panicked

\* Everywhere(f).transform(t) as a function of the term: f.transform applied to
\* t rebuilt from its children's results, left to right, F's counter threaded
\* through.  [ret, ctr].
RECURSIVE EverywhereValue(_, _, _)
EverywhereValue(f, ctr, t) ==
  LET RECURSIVE Kids(_, _)
      Kids(i, c) ==
        IF i > Len(t.k) THEN [kids |-> <<>>, ctr |-> c]
        ELSE LET h == EverywhereValue(f, c, t.k[i])
                 r == Kids(i + 1, h.ctr)
             IN [kids |-> <<h.ret>> \o r.kids, ctr |-> r.ctr]
      ks == Kids(1, ctr)
      r == TransformationTransform(f, ks.ctr, Rebuild(t, ks.kids))
  IN [ret |-> r.ret, ctr |-> r.ctr]

\* The value returned by the call of f.transform at the node of path p.
RetAt(log, p) == log[CHOOSE i \in DOMAIN log : log[i].path = p].ret

\* C3 (full traversal result): the value f.transform receives at a node is the
\* node rebuilt with each child replaced by what the traversal returned for that
\* child; the traversal returns what f.transform returned at the root, which is
\* f applied bottom-up to the whole term.
FullTraversalResult ==
  kind = "Everywhere" =>
    /\ \A i \in DOMAIN run.tlog :
         LET e == run.tlog[i]
             n == NodeAt(input, e.path)
         IN /\ e.arg.c = n.c
            /\ e.arg.d = n.d
            /\ Len(e.arg.k) = Len(n.k)
            /\ \A j \in DOMAIN n.k :
                 /\ \E h \in 1..(i - 1) : run.tlog[h].path = e.path \o <<j>>
                 /\ e.arg.k[j] = RetAt(run.tlog, e.path \o <<j>>)
    /\ Done(run) =>
         /\ run.result = <<EverywhereValue(fn, 0, input).ret>>
         /\ run.result = <<RetAt(run.tlog, <<>>)>>

\* Pair(Leaf(1), Leaf(2)) under n -> n + 1 came out as Pair(Leaf(2), Leaf(3)).
FullTraversalWitness ==
  /\ kind = "Everywhere"
  /\ fn = [U |-> "Int", kind |-> "inc"]
  /\ input = Pair(Leaf(1), Leaf(2))
  /\ run.result = <<Pair(Leaf(2), Leaf(3))>>

LogPaths(log) == [i \in DOMAIN log |-> log[i].path]

\* C4 (bottom-up order): the calls of f.transform made by Everywhere, in order,
\* are the nodes of the input term in post-order: once per node, children
\* before their parent, siblings in declared order.
BottomUpOrder ==
  kind = "Everywhere" =>
    /\ IsPrefix(LogPaths(run.tlog), PostOrder(input, <<>>))
    /\ Done(run) => LogPaths(run.tlog) = PostOrder(input, <<>>)

\* A finished traversal of a term with two Pair nodes whose function returns
\* terms larger than its argument.
BottomUpOrderWitness ==
  /\ kind = "Everywhere"
  /\ fn.kind = "grow"
  /\ input = Pair(Pair(Leaf(1), Leaf(2)), Leaf(1))
  /\ Done(run)
  /\ Len(run.tlog) = Size(input)

\* C8 (identity traversal): Everywhere over an identity function returns a term
\* equal to its input.
IdentityTraversal ==
  (kind = "Everywhere" /\ fn.kind = "id" /\ Done(run)) => run.result = <<input>>

\* The identity on Tree was invoked on every tree node of an asymmetric term.
IdentityTraversalWitness ==
  /\ kind = "Everywhere"
  /\ fn = [U |-> "Tree", kind |-> "id"]
  /\ input = Pair(Leaf(1), Pair(Leaf(2), Leaf(1)))
  /\ Len(run.flog) = 5
  /\ run.result = <<input>>

\* The paths of a log, as a set; the proper prefixes of a path.
PathSet(log) == {log[i].path : i \in DOMAIN log}

Distinct(log) == \A i, j \in DOMAIN log : log[i].path = log[j].path => i = j

StrictlyBelow(p, q) == Len(p) < Len(q) /\ IsPrefix(p, q)

\* C5 (pruning): where the query is false on a node, EverywhereBut returns that
\* node as it was given, calls f.transform neither on it nor below it, and
\* calls the query on nothing below it.
Pruning ==
  kind = "EverywhereBut" =>
    \A i \in DOMAIN run.qlog :
      LET q == run.qlog[i] IN
      ~QueryPred(pred, q.arg) =>
        /\ \A j \in DOMAIN run.tlog : ~IsPrefix(q.path, run.tlog[j].path)
        /\ \A j \in DOMAIN run.qlog : ~StrictlyBelow(q.path, run.qlog[j].path)
        /\ \A j \in DOMAIN run.stack : ~IsPrefix(q.path, run.stack[j].path)
        /\ q.path = <<>> => run.result = <<input>>
        /\ q.path # <<>> =>
             LET par == SubSeq(q.path, 1, Len(q.path) - 1)
                 idx == q.path[Len(q.path)]
             IN /\ \A j \in DOMAIN run.stack :
                     run.stack[j].path = par => run.stack[j].kids[idx] = NodeAt(input, q.path)
                /\ \A j \in DOMAIN run.tlog :
                     run.tlog[j].path = par => run.tlog[j].arg.k[idx] = NodeAt(input, q.path)

\* A finished traversal that pruned a Pair below the root: F, on Tree, was
\* invoked on the root and on the other child only, and the query was called
\* on none of the five nodes below the pruned Pair.
PruningWitness ==
  /\ kind = "EverywhereBut"
  /\ pred = "notPair11"
  /\ fn = [U |-> "Tree", kind |-> "swap"]
  /\ input = Pair(Leaf(2), Pair(Leaf(1), Leaf(1)))
  /\ run.result = <<Pair(Pair(Leaf(1), Leaf(1)), Leaf(2))>>
  /\ Len(run.flog) = 2
  /\ Len(run.qlog) = 4

\* The nodes EverywhereBut visits: those whose proper ancestors all satisfy the query.
RECURSIVE Visited(_, _, _)
Visited(p, t, path) ==
  {path} \cup
    (IF QueryPred(p, t)
     THEN UNION {Visited(p, t.k[i], path \o <<i>>) : i \in DOMAIN t.k}
     ELSE {})

\* C6 (the query sees the original node): EverywhereBut calls the query once on
\* each node it visits, on the node of the input term as it was given, before
\* any child of the node is visited and before f.transform is called at the
\* node.  So Pair(Leaf(1), Leaf(2)) with the query "is not Leaf(2)" and
\* n -> n + 1 comes out as Pair(Leaf(2), Leaf(2)).
QuerySeesOriginal ==
  kind = "EverywhereBut" =>
    /\ Distinct(run.qlog)
    /\ \A i \in DOMAIN run.qlog : run.qlog[i].arg = NodeAt(input, run.qlog[i].path)
    /\ PathSet(run.tlog) \subseteq PathSet(run.qlog)
    /\ \A j \in DOMAIN run.stack :
         LET fr == run.stack[j] IN
         IF fr.pc = "query"
         THEN j = Len(run.stack) /\ fr.path \notin PathSet(run.qlog)
         ELSE fr.path \in PathSet(run.qlog)
    /\ PathSet(run.qlog) \subseteq Visited(pred, input, <<>>)
    /\ Done(run) => PathSet(run.qlog) = Visited(pred, input, <<>>)
    /\ (/\ Done(run)
        /\ input = Pair(Leaf(1), Leaf(2))
        /\ pred = "notLeaf2"
        /\ fn = [U |-> "Int", kind |-> "inc"])
         => run.result = <<Pair(Leaf(2), Leaf(2))>>

\* The example finished: the first leaf became Leaf(2), on which the query is
\* false, and the second was pruned.
QuerySeesOriginalWitness ==
  /\ kind = "EverywhereBut"
  /\ input = Pair(Leaf(1), Leaf(2))
  /\ pred = "notLeaf2"
  /\ fn = [U |-> "Int", kind |-> "inc"]
  /\ run.result = <<Pair(Leaf(2), Leaf(2))>>
  /\ Len(run.qlog) = 4
  /\ Len(run.tlog) = 3

\* Whether the query is true on every node of t.
RECURSIVE TrueEverywhere(_, _)
TrueEverywhere(p, t) ==
  QueryPred(p, t) /\ \A i \in DOMAIN t.k : TrueEverywhere(p, t.k[i])

Agree(s, t) == IsPrefix(s, t) \/ IsPrefix(t, s)

\* C7 (filtered equals full where the query is true): when the query is true on
\* every node of the input, EverywhereBut and Everywhere make the same calls of
\* f.transform and of F, in the same order with the same arguments and results,
\* and return the same value.
FilteredEqualsFull ==
  TrueEverywhere(pred, input) =>
    /\ Agree(run.tlog, ref.tlog)
    /\ Agree(run.flog, ref.flog)
    /\ Len(run.tlog) = Len(ref.tlog) => run.ctr = ref.ctr
    /\ Done(ref) /\ ~Active(run) => run.result = ref.result
    /\ Done(run) /\ ~Active(ref) =>
         /\ run.result = ref.result
         /\ run.tlog = ref.tlog
         /\ run.flog = ref.flog

\* Both finished on a term holding no Leaf(2) whose result holds one: the query
\* "is not Leaf(2)" never saw it.
FilteredEqualsFullWitness ==
  /\ pred = "notLeaf2"
  /\ fn = [U |-> "Int", kind |-> "inc"]
  /\ input = Pair(Leaf(1), Pair(Leaf(1), Leaf(1)))
  /\ Done(run)
  /\ Done(ref)
  /\ run.result = <<Pair(Leaf(2), Pair(Leaf(2), Leaf(2)))>>
  /\ run.result = ref.result

\* The active calls are calls on nodes of the input term, each on the next
\* unprocessed child of the call below it, and no node is processed twice.
NoRevisit ==
  /\ Distinct(run.tlog)
  /\ Distinct(run.qlog)
  /\ \A j \in DOMAIN run.stack :
       /\ run.stack[j].t = NodeAt(input, run.stack[j].path)
       /\ run.stack[j].path \notin PathSet(run.tlog)
       /\ IF j = 1 THEN run.stack[j].path = <<>>
          ELSE run.stack[j].path = run.stack[j - 1].path \o <<Len(run.stack[j - 1].kids) + 1>>

\* C9 (termination): a traversal by Everywhere or EverywhereBut of a finite term
\* returns, also when F returns terms larger than its argument; it never
\* revisits a node and never descends into a value returned by f.
Termination ==
  /\ [](Traversing => NoRevisit)
  /\ Traversing => <>Done(run)

\* A traversal returned although F grew the term at each of its five tree nodes.
TerminationWitness ==
  /\ Traversing
  /\ fn.kind = "grow"
  /\ input \in TreesOf(2)
  /\ Done(run)
  /\ Len(run.flog) = 5
  /\ Size(run.result[1]) > Size(input) + 10

====
